---- MODULE Spec2Model ----
(***************************************************************************)
(* The runtime completion engine of goobits-generated CLIs                 *)
(* (src/src/completion_engine.rs): specification loading, the tokenizer,   *)
(* the context classifier and the completion generators.                   *)
(*                                                                         *)
(* Text is a TLA+ string; a Rust Option<T> is a sequence of length at most *)
(* one (<<>> is None, <<v>> is Some(v)); a HashMap is a function whose     *)
(* iteration order is picked by a seed.                                    *)
(***************************************************************************)
EXTENDS Integers, Sequences, FiniteSets, TLC

None == <<>>
Some(v) == <<v>>
IsSome(o) == Len(o) = 1
Unwrap(o) == o[1]

Min(a, b) == IF a < b THEN a ELSE b

(***************************************************************************)
(* Strings: chars, UTF-8 widths, byte slicing, prefix test and ordering.   *)
(***************************************************************************)
CharAt(s, i) == SubSeq(s, i, i)

\* The characters of the model in ascending order of their UTF-8 encoding.
Alphabet == "\t \"'-/Vabcdefghijklmnopqrstuvwxyzé"

CharSet == {CharAt(Alphabet, i) : i \in 1..Len(Alphabet)}

Ord == [c \in CharSet |-> CHOOSE i \in 1..Len(Alphabet) : CharAt(Alphabet, i) = c]

\* char::len_utf8: the only non-ASCII character of the model takes two bytes.
Utf8Len(c) == IF c = "é" THEN 2 ELSE 1

\* str::len: the length in bytes.
RECURSIVE BytesFrom(_, _)
BytesFrom(s, i) ==
    IF i > Len(s) THEN 0 ELSE Utf8Len(CharAt(s, i)) + BytesFrom(s, i + 1)

ByteLen(s) == BytesFrom(s, 1)

\* The number of characters in the first n bytes of s (n <= ByteLen(s)), or
\* -1 when byte n lies inside a character; k characters take `bytes` bytes.
RECURSIVE CharsInBytes(_, _, _, _)
CharsInBytes(s, n, k, bytes) ==
    IF bytes = n THEN k
    ELSE IF bytes > n THEN -1
    ELSE CharsInBytes(s, n, k + 1, bytes + Utf8Len(CharAt(s, k + 1)))

\* str::is_char_boundary, for n <= ByteLen(s)
IsCharBoundary(s, n) == CharsInBytes(s, n, 0, 0) >= 0

\* &s[..n] for n on a character boundary
SliceTo(s, n) == SubSeq(s, 1, CharsInBytes(s, n, 0, 0))

\* str::starts_with
StartsWith(s, p) == Len(p) <= Len(s) /\ SubSeq(s, 1, Len(p)) = p

\* char::is_whitespace, on the characters of the model
IsWhitespace(c) == c \in {" ", "\t"}

\* str::trim_start_matches(c)
RECURSIVE TrimStartMatches(_, _)
TrimStartMatches(s, c) ==
    IF s # "" /\ CharAt(s, 1) = c THEN TrimStartMatches(Tail(s), c) ELSE s

\* Ord for String: lexicographic on the bytes, a proper prefix comes first.
RECURSIVE StrLessFrom(_, _, _)
StrLessFrom(a, b, i) ==
    IF i > Len(b) THEN FALSE
    ELSE IF i > Len(a) THEN TRUE
    ELSE IF CharAt(a, i) = CharAt(b, i) THEN StrLessFrom(a, b, i + 1)
    ELSE Ord[CharAt(a, i)] < Ord[CharAt(b, i)]

StrLess(a, b) == StrLessFrom(a, b, 1)

Range(seq) == {seq[i] : i \in 1..Len(seq)}

\* Some enumeration of a finite set
RECURSIVE SeqOfSet(_)
SeqOfSet(S) ==
    IF S = {} THEN <<>>
    ELSE LET x == CHOOSE y \in S : TRUE
         IN  <<x>> \o SeqOfSet(S \ {x})

RemoveAt(seq, i) == SubSeq(seq, 1, i - 1) \o SubSeq(seq, i + 1, Len(seq))

\* One enumeration of a sequence's elements, picked by the seed: the order in
\* which a HashMap or a HashSet yields its entries is not specified.
RECURSIVE Permute(_, _)
Permute(seq, seed) ==
    IF seq = <<>> THEN <<>>
    ELSE LET i == (seed % Len(seq)) + 1
         IN  <<seq[i]>> \o Permute(RemoveAt(seq, i), seed \div Len(seq))

\* HashMap::keys / HashSet::into_iter
IterOrder(S, seed) == Permute(SeqOfSet(S), seed)

\* Iterator::filter
RECURSIVE Filter(_, _)
Filter(seq, p) ==
    IF seq = <<>> THEN <<>>
    ELSE (IF StartsWith(Head(seq), p) THEN <<Head(seq)>> ELSE <<>>)
         \o Filter(Tail(seq), p)

\* Were the list left in the order the hash set yields it
Sort_Skipped(seq) == seq

\* slice::sort on Vec<String>
Sort(seq) == SortSeq(seq, StrLess)

(***************************************************************************)
(* Tokenizer                                                               *)
(***************************************************************************)
ScanInit == [tokens |-> <<>>, current_token |-> "", in_quotes |-> FALSE,
             quote_char |-> None]

\* Were a quoted region closed by either quote character
ScanStep_AnyQuoteCloses(st, ch) ==
    IF ch \in {"\"", "'"} /\ ~st.in_quotes
    THEN [st EXCEPT !.in_quotes = TRUE, !.quote_char = Some(ch),
                    !.current_token = @ \o ch]
    ELSE IF ch \in {"\"", "'"} /\ st.in_quotes
    THEN [st EXCEPT !.in_quotes = FALSE, !.current_token = @ \o ch,
                    !.quote_char = None]
    ELSE IF IsWhitespace(ch) /\ ~st.in_quotes
    THEN IF st.current_token # ""
         THEN [st EXCEPT !.tokens = Append(@, st.current_token),
                         !.current_token = ""]
         ELSE st
    ELSE [st EXCEPT !.current_token = @ \o ch]

\* Were the quote characters delimiters that the tokens do not keep
ScanStep_DropQuotes(st, ch) ==
    IF ch \in {"\"", "'"} /\ ~st.in_quotes
    THEN [st EXCEPT !.in_quotes = TRUE, !.quote_char = Some(ch)]
    ELSE IF Some(ch) = st.quote_char /\ st.in_quotes
    THEN [st EXCEPT !.in_quotes = FALSE, !.quote_char = None]
    ELSE IF IsWhitespace(ch) /\ ~st.in_quotes
    THEN IF st.current_token # ""
         THEN [st EXCEPT !.tokens = Append(@, st.current_token),
                         !.current_token = ""]
         ELSE st
    ELSE [st EXCEPT !.current_token = @ \o ch]

\* One iteration of the loop over relevant_line.chars()
ScanStep(st, ch) ==
    IF ch \in {"\"", "'"} /\ ~st.in_quotes
    THEN [st EXCEPT !.in_quotes = TRUE, !.quote_char = Some(ch),
                    !.current_token = @ \o ch]
    ELSE IF Some(ch) = st.quote_char /\ st.in_quotes
    THEN [st EXCEPT !.in_quotes = FALSE, !.current_token = @ \o ch,
                    !.quote_char = None]
    ELSE IF IsWhitespace(ch) /\ ~st.in_quotes
    THEN IF st.current_token # ""
         THEN [st EXCEPT !.tokens = Append(@, st.current_token),
                         !.current_token = ""]
         ELSE st
    ELSE [st EXCEPT !.current_token = @ \o ch]

RECURSIVE ScanFrom(_, _, _)
ScanFrom(s, i, st) ==
    IF i > Len(s) THEN st ELSE ScanFrom(s, i + 1, ScanStep(st, CharAt(s, i)))

\* After the loop: the final token is added if there is one
ScanResult(st) ==
    IF st.current_token # "" THEN Append(st.tokens, st.current_token)
    ELSE st.tokens

\* The tokens of an already truncated line.
Tokenize(relevant_line) == ScanResult(ScanFrom(relevant_line, 1, ScanInit))

\* The loop run one iteration at a time: pos is the place of the iterator in
\* relevant_line.chars(), seen the characters it has yielded, st the locals
ScanIdle == [relevant_line |-> "", pos |-> 0, seen |-> "", st |-> ScanInit]

\* Were the loop to wait inside a quote for the character that closes it
ScanAdvance_WaitsForQuote(sc, ch) ==
    IF sc.st.in_quotes /\ Some(ch) # sc.st.quote_char THEN sc
    ELSE [sc EXCEPT !.pos = @ + 1, !.seen = @ \o ch, !.st = ScanStep(@, ch)]

\* The iterator yields the next character and the loop body runs on it
ScanAdvance(sc, ch) ==
    [sc EXCEPT !.pos = @ + 1, !.seen = @ \o ch, !.st = ScanStep(@, ch)]

\* cursor_pos.unwrap_or(line.len()).min(line.len()): the byte offset at which
\* the line is cut
CursorEnd(line, cursor_pos) ==
    Min(IF IsSome(cursor_pos) THEN Unwrap(cursor_pos) ELSE ByteLen(line),
        ByteLen(line))

\* parse_command_line: slicing the line at a byte offset inside a character
\* panics; otherwise the tokens of the line up to the cursor.
parse_command_line(line, cursor_pos) ==
    LET end == CursorEnd(line, cursor_pos)
    IN  IF ~IsCharBoundary(line, end)
        THEN [panic |-> TRUE, tokens |-> <<>>]
        ELSE [panic |-> FALSE, tokens |-> Tokenize(SliceTo(line, end))]

(***************************************************************************)
(* Context classifier                                                      *)
(***************************************************************************)
EmptyCommands == <<>>

\* HashMap::contains_key / HashMap::get(..).is_some()
HasKey(map, k) == k \in DOMAIN map

\* self.config.cli commands, or the empty map
CliCommands(config) ==
    IF IsSome(config.cli) /\ IsSome(Unwrap(config.cli).commands)
    THEN Unwrap(Unwrap(config.cli).commands)
    ELSE EmptyCommands

NewContext(type) ==
    [context_type |-> type, level |-> 0, current_command |-> None,
     subcommand |-> None, last_token |-> "", previous_token |-> "",
     partial |-> None, option |-> None]

\* Were the Subcommand context kept at any depth below a command with
\* subcommands
KnownCommand_AnyDepth(command_config, tokens, context) ==
    LET ctx == [context EXCEPT !.current_command = Some(tokens[1])]
    IN  IF IsSome(command_config.subcommands)
        THEN [ctx EXCEPT !.context_type = "Subcommand", !.level = 1,
                         !.partial = Some(tokens[Len(tokens)])]
        ELSE [ctx EXCEPT !.context_type = "Option", !.level = 1]

\* The classification once the first token is a command of the specification
KnownCommand(command_config, tokens, context) ==
    LET ctx == [context EXCEPT !.current_command = Some(tokens[1])]
    IN  IF IsSome(command_config.subcommands) /\ Len(tokens) = 2
        THEN [ctx EXCEPT !.context_type = "Subcommand", !.level = 1,
                         !.partial = Some(tokens[2])]
        ELSE IF IsSome(command_config.subcommands)
        THEN IF Len(tokens) > 2
                /\ HasKey(Unwrap(command_config.subcommands), tokens[2])
             THEN [ctx EXCEPT !.context_type = "Option",
                              !.subcommand = Some(tokens[2]), !.level = 2]
             ELSE [ctx EXCEPT !.context_type = "Option", !.level = 1]
        ELSE [ctx EXCEPT !.context_type = "Option", !.level = 1]

\* Were the built-in commands completion and config known to the classifier
CommandDepth_BuiltinsKnown(config, tokens, context) ==
    LET cli_commands == CliCommands(config)
    IN  IF Len(tokens) = 1
        THEN [context EXCEPT !.context_type = "Command", !.level = 0,
                             !.partial = Some(tokens[1])]
        ELSE IF HasKey(cli_commands, tokens[1])
        THEN KnownCommand(cli_commands[tokens[1]], tokens, context)
        ELSE IF tokens[1] \in {"completion", "config"} /\ Len(tokens) = 2
        THEN [context EXCEPT !.context_type = "Subcommand", !.level = 1,
                             !.current_command = Some(tokens[1]),
                             !.partial = Some(tokens[2])]
        ELSE context

\* Were an unmatched first token to fall back to the Command context
CommandDepth_FallBack(config, tokens, context) ==
    IF Len(tokens) # 1 /\ HasKey(CliCommands(config), tokens[1])
    THEN KnownCommand(CliCommands(config)[tokens[1]], tokens, context)
    ELSE [context EXCEPT !.context_type = "Command", !.level = 0,
                         !.partial = Some(tokens[Len(tokens)])]

\* The classification once neither of the last two tokens starts with a dash.
CommandDepth(config, tokens, context) ==
    LET cli_commands == CliCommands(config)
    IN  IF Len(tokens) = 1
        THEN [context EXCEPT !.context_type = "Command", !.level = 0,
                             !.partial = Some(tokens[1])]
        ELSE IF HasKey(cli_commands, tokens[1])
        THEN KnownCommand(cli_commands[tokens[1]], tokens, context)
        ELSE context

\* Were the second-to-last token examined before the last one
DashChecks_PreviousFirst(config, tokens, context) ==
    IF StartsWith(context.previous_token, "-")
    THEN [context EXCEPT !.context_type = "OptionValue",
                         !.option = Some(context.previous_token)]
    ELSE IF StartsWith(context.last_token, "-")
    THEN [context EXCEPT !.context_type = "Option"]
    ELSE CommandDepth(config, tokens, context)

\* Were the value attributed to the last token instead of the option before it
DashChecks_OptionIsLast(config, tokens, context) ==
    IF StartsWith(context.last_token, "-")
    THEN [context EXCEPT !.context_type = "Option"]
    ELSE IF StartsWith(context.previous_token, "-")
    THEN [context EXCEPT !.context_type = "OptionValue",
                         !.option = Some(context.last_token)]
    ELSE CommandDepth(config, tokens, context)

\* The two checks on dash-prefixed tokens, made before any command is matched.
DashChecks(config, tokens, context) ==
    IF StartsWith(context.last_token, "-")
    THEN [context EXCEPT !.context_type = "Option"]
    ELSE IF StartsWith(context.previous_token, "-")
    THEN [context EXCEPT !.context_type = "OptionValue",
                         !.option = Some(context.previous_token)]
    ELSE CommandDepth(config, tokens, context)

analyze_context(config, all_tokens) ==
    IF all_tokens = <<>> THEN NewContext("Command")
    ELSE LET tokens == Tail(all_tokens)       \* skip the program name
         IN  IF tokens = <<>> THEN NewContext("Command")
             ELSE LET last_token == tokens[Len(tokens)]
                      previous_token == IF Len(tokens) > 1
                                        THEN tokens[Len(tokens) - 1] ELSE ""
                      context == [NewContext("Unknown") EXCEPT
                                    !.last_token = last_token,
                                    !.previous_token = previous_token]
                  IN  DashChecks(config, tokens, context)

(***************************************************************************)
(* Completion generators                                                   *)
(***************************************************************************)
BuiltinCommands == <<"help", "version", "completion", "config">>

\* Were an absent upgrade flag to count as disabled
UpgradeEnabled_DefaultOff(config) ==
    IF IsSome(config.cli) /\ IsSome(Unwrap(config.cli).enable_upgrade_command)
    THEN Unwrap(Unwrap(config.cli).enable_upgrade_command)
    ELSE FALSE

\* and_then(|cli| cli.enable_upgrade_command).unwrap_or(true)
UpgradeEnabled(config) ==
    IF IsSome(config.cli) /\ IsSome(Unwrap(config.cli).enable_upgrade_command)
    THEN Unwrap(Unwrap(config.cli).enable_upgrade_command)
    ELSE TRUE

get_command_completions(config, seed) ==
    IterOrder(DOMAIN CliCommands(config), seed)
    \o BuiltinCommands
    \o (IF UpgradeEnabled(config) THEN <<"upgrade">> ELSE <<>>)

\* Were the subcommands declared by the specification to come before the
\* hard-coded lists of the built-in commands
get_subcommand_completions_UserFirst(config, context, seed) ==
    IF ~IsSome(context.current_command) THEN <<>>
    ELSE LET command == Unwrap(context.current_command)
         IN  IF HasKey(CliCommands(config), command)
                /\ IsSome(CliCommands(config)[command].subcommands)
             THEN IterOrder(DOMAIN Unwrap(CliCommands(config)[command].subcommands),
                            seed)
             ELSE IF command = "completion"
             THEN <<"generate", "install", "instructions">>
             ELSE IF command = "config"
             THEN <<"get", "set", "reset", "path">>
             ELSE <<>>

get_subcommand_completions(config, context, seed) ==
    IF ~IsSome(context.current_command) THEN <<>>
    ELSE LET command == Unwrap(context.current_command)
         IN  IF command = "completion"
             THEN <<"generate", "install", "instructions">>
             ELSE IF command = "config"
             THEN <<"get", "set", "reset", "path">>
             ELSE IF ~IsSome(config.cli) THEN <<>>
             ELSE IF ~HasKey(CliCommands(config), command) THEN <<>>
             ELSE LET command_config == CliCommands(config)[command]
                  IN  IF ~IsSome(command_config.subcommands) THEN <<>>
                      ELSE IterOrder(DOMAIN Unwrap(command_config.subcommands),
                                     seed)

\* "--name" and, when the option has a short alias, "-short", for each option
RECURSIVE OptionFlags(_)
OptionFlags(opts) ==
    IF opts = <<>> THEN <<>>
    ELSE LET opt == Head(opts)
         IN  <<"--" \o opt.name>>
             \o (IF IsSome(opt.short) THEN <<"-" \o Unwrap(opt.short)>> ELSE <<>>)
             \o OptionFlags(Tail(opts))

\* The node whose options apply: the command, replaced by the subcommand of
\* the context when the command declares it. <<>> when the command is unknown.
\* Were the options of the command kept below its subcommand
CurrentNode_KeepsCommand(config, context) ==
    IF ~IsSome(context.current_command) THEN None
    ELSE LET command == Unwrap(context.current_command)
             cli_commands == CliCommands(config)
         IN  IF ~HasKey(cli_commands, command) THEN None
             ELSE Some(cli_commands[command])

CurrentNode(config, context) ==
    IF ~IsSome(context.current_command) THEN None
    ELSE LET command == Unwrap(context.current_command)
             cli_commands == CliCommands(config)
         IN  IF ~HasKey(cli_commands, command) THEN None
             ELSE LET command_config == cli_commands[command]
                  IN  IF IsSome(context.subcommand)
                         /\ IsSome(command_config.subcommands)
                         /\ HasKey(Unwrap(command_config.subcommands),
                                   Unwrap(context.subcommand))
                      THEN Some(Unwrap(command_config.subcommands)
                                    [Unwrap(context.subcommand)])
                      ELSE Some(command_config)

GlobalOptionsOf(config) ==
    IF IsSome(config.cli) /\ IsSome(Unwrap(config.cli).options)
    THEN Unwrap(Unwrap(config.cli).options)
    ELSE <<>>

NodeOptions(node) ==
    IF IsSome(node) /\ IsSome(Unwrap(node).options)
    THEN Unwrap(Unwrap(node).options) ELSE <<>>

StandardOptions == <<"--help", "-h", "--version", "-V">>

get_option_completions(config, context) ==
    OptionFlags(GlobalOptionsOf(config))
    \o OptionFlags(NodeOptions(CurrentNode(config, context)))
    \o StandardOptions

\* The first option of the list with this name or short alias, if any
RECURSIVE FirstMatch(_, _)
FirstMatch(opts, option_name) ==
    IF opts = <<>> THEN None
    ELSE IF Head(opts).name = option_name
            \/ Head(opts).short = Some(option_name)
    THEN Some(Head(opts))
    ELSE FirstMatch(Tail(opts), option_name)

find_option_config(config, option_name, context) ==
    LET global == FirstMatch(GlobalOptionsOf(config), option_name)
    IN  IF IsSome(global) THEN global
        ELSE IF IsSome(context.current_command) /\ ~IsSome(config.cli) THEN None
        ELSE FirstMatch(NodeOptions(CurrentNode(config, context)), option_name)

\* The entries of a directory listing that pass the test, in listing order
RECURSIVE EntriesOfType(_, _, _)
EntriesOfType(entries, type, suffix) ==
    IF entries = <<>> THEN <<>>
    ELSE (IF Head(entries).file_type = type
          THEN <<Head(entries).name \o suffix>> ELSE <<>>)
         \o EntriesOfType(Tail(entries), type, suffix)

get_file_completions(dir, seed) ==
    IF dir.ok THEN EntriesOfType(Permute(dir.entries, seed), "file", "")
    ELSE <<>>

\* Were the directories listed by their bare names
get_directory_completions_NoSuffix(dir, seed) ==
    IF dir.ok THEN EntriesOfType(Permute(dir.entries, seed), "dir", "")
    ELSE <<>>

get_directory_completions(dir, seed) ==
    IF dir.ok THEN EntriesOfType(Permute(dir.entries, seed), "dir", "/")
    ELSE <<>>

\* The hard-coded values of the options of the built-in commands
BuiltinOptionValues(command, option) ==
    IF command = "completion" /\ option = "shell"
    THEN Some(<<"bash", "zsh", "fish", "powershell">>)
    ELSE IF command = "config" /\ option = "format"
    THEN Some(<<"json", "yaml", "plain">>)
    ELSE IF command = "config" /\ option = "value-type"
    THEN Some(<<"string", "int", "float", "bool">>)
    ELSE None

\* Were the dispatch on the declared type alone
OptionTypeValues_TypeOnly(option_config, option, dir, seed) ==
    LET option_type == IF IsSome(option_config.option_type)
                       THEN Unwrap(option_config.option_type) ELSE "str"
    IN  IF option_type = "choice"
        THEN IF IsSome(option_config.choices)
             THEN Unwrap(option_config.choices) ELSE <<>>
        ELSE IF option_type = "file" THEN get_file_completions(dir, seed)
        ELSE IF option_type = "dir" THEN get_directory_completions(dir, seed)
        ELSE IF option_type = "bool" \/ option_type = "flag"
        THEN <<"true", "false">>
        ELSE <<>>

\* The dispatch on the type of the option found
OptionTypeValues(option_config, option, dir, seed) ==
    LET option_type == IF IsSome(option_config.option_type)
                       THEN Unwrap(option_config.option_type) ELSE "str"
    IN  IF option_type = "choice"
        THEN IF IsSome(option_config.choices)
             THEN Unwrap(option_config.choices) ELSE <<>>
        ELSE IF option_type = "file"
                \/ option \in {"config", "file", "input", "output"}
        THEN get_file_completions(dir, seed)
        ELSE IF option_type = "dir"
                \/ option \in {"directory", "dir", "output-dir"}
        THEN get_directory_completions(dir, seed)
        ELSE IF option_type = "bool" \/ option_type = "flag"
        THEN <<"true", "false">>
        ELSE <<>>

get_option_value_completions(config, context, dir, seed) ==
    IF ~IsSome(context.option) THEN <<>>
    ELSE LET option == TrimStartMatches(Unwrap(context.option), "-")
             builtin == IF IsSome(context.current_command)
                        THEN BuiltinOptionValues(Unwrap(context.current_command),
                                                 option)
                        ELSE None
         IN  IF IsSome(builtin) THEN Unwrap(builtin)
             ELSE LET option_config == find_option_config(config, option, context)
                  IN  IF ~IsSome(option_config) THEN <<>>
                      ELSE OptionTypeValues(Unwrap(option_config), option,
                                            dir, seed)

\* The match on context_type
CandidatesOf(config, context, dir, seed) ==
    CASE context.context_type = "Command" ->
            get_command_completions(config, seed)
      [] context.context_type = "Subcommand" ->
            get_subcommand_completions(config, context, seed)
      [] context.context_type = "Option" ->
            get_option_completions(config, context)
      [] context.context_type = "OptionValue" ->
            get_option_value_completions(config, context, dir, seed)
      [] OTHER -> <<>>

\* Were the candidates returned without the filter
PartialFilter_Skipped(completions, partial) == completions

\* The filter by the partial text, applied when the context carries one
PartialFilter(completions, partial) ==
    IF IsSome(partial) THEN Filter(completions, Unwrap(partial))
    ELSE completions

generate_completions(config, context, dir, seed) ==
    PartialFilter(CandidatesOf(config, context, dir, seed), context.partial)

\* collect::<HashSet<_>>(): equal strings are kept once
Dedup(completions) == Range(completions)

\* Were the candidates sorted without passing through the hash set
UniqueSorted_KeepDuplicates(completions, seed) ==
    Sort(Permute(completions, seed))

\* The HashSet collected back into a Vec, in its iteration order, then sorted
UniqueSorted(completions, seed) ==
    Sort(IterOrder(Dedup(completions), seed))

\* get_completions once the line is parsed and classified
CompletionsOfContext(config, context, dir, seed) ==
    UniqueSorted(generate_completions(config, context, dir, seed), seed)

(***************************************************************************)
(* Loading                                                                 *)
(***************************************************************************)
EmptyConfig == [cli |-> None]

\* Were the loader to keep what it can make of a file that fails
load_config_Lenient(f) == f.config

\* load_config: a file that cannot be read or parsed gives Config { cli: None }
load_config(f) == IF f.status = "Ok" THEN f.config ELSE EmptyConfig

(***************************************************************************)
(* The specifications, directories and command lines explored              *)
(***************************************************************************)
Opt(name, short, type, choices) ==
    [name |-> name, short |-> short, option_type |-> type, choices |-> choices]

Node(options, subcommands) == [options |-> options, subcommands |-> subcommands]

Cli(commands, options, upgrade) ==
    [commands |-> commands, options |-> options,
     enable_upgrade_command |-> upgrade]

CmdBuild ==
    Node(Some(<<Opt("output", Some("o"), None, None),
                Opt("format", None, Some("choice"), Some(<<"json", "yaml">>))>>),
         None)

CmdDeploy ==
    Node(Some(<<Opt("env", Some("e"), Some("choice"), Some(<<"dev", "prod">>))>>),
         Some(("start" :> Node(Some(<<Opt("force", Some("f"), Some("flag"), None)>>),
                               None))
              @@ ("stop" :> Node(None, None))
              @@ ("--format" :> Node(None, None))))

CmdPlain == Node(None, None)

CmdConfig == Node(None, Some("show" :> Node(None, None)))

CmdCompletion ==
    Node(None,
         Some("generate" :> Node(Some(<<Opt("shell", None, None, None)>>), None)))

GlobalOptions ==
    <<Opt("verbose", Some("v"), Some("flag"), None),
      Opt("help", Some("h"), None, None),
      Opt("config", Some("c"), None, None),
      Opt("outdir", None, Some("dir"), None),
      Opt("shell", None, Some("choice"), Some(<<"bash", "zsh">>))>>

\* A goobits.yaml without a cli section
CfgNoCli == EmptyConfig

\* A cli section with nothing but the upgrade flag
CfgBare == [cli |-> Some(Cli(None, None, Some(TRUE)))]

\* An application: a user command named as the built-in help, global options
\* of which one repeats a standard flag
CfgApp ==
    [cli |-> Some(Cli(Some(("build" :> CmdBuild) @@ ("deploy" :> CmdDeploy)
                           @@ ("help" :> CmdPlain)),
                      Some(GlobalOptions), None))]

\* An application that declares the built-in names config and completion itself
CfgShadow ==
    [cli |-> Some(Cli(Some(("config" :> CmdConfig)
                           @@ ("completion" :> CmdCompletion)
                           @@ ("deploy" :> CmdDeploy)),
                      Some(<<>>), Some(FALSE)))]

Configs == {CfgNoCli, CfgBare, CfgApp, CfgShadow}

FileOf(status, config) == [status |-> status, config |-> config]

\* Files that do not load: none at the path, one that cannot be read, one whose
\* text does not parse (config is what the rest of its text declares)
FailedFiles ==
    {FileOf("NotFound", EmptyConfig), FileOf("Unreadable", CfgApp),
     FileOf("Malformed", CfgApp)}

Files == FailedFiles \cup {FileOf("Ok", c) : c \in Configs}

Entry(name, type) == [name |-> name, file_type |-> type]

DirOk == [ok |-> TRUE,
          entries |-> <<Entry("main.rs", "file"), Entry("src", "dir"),
                        Entry("link", "symlink")>>]

DirErr == [ok |-> FALSE, entries |-> <<>>]

Dirs == {DirOk, DirErr}

MaxWords == 3
MaxChars == 3
MaxSeed == 1
MaxCalls == 2

Words == {"build", "deploy", "start", "config", "--format", "x"}

RECURSIVE WordLinesUpTo(_)
WordLinesUpTo(k) ==
    IF k = 0 THEN {"prog"}
    ELSE LET P == WordLinesUpTo(k - 1)
         IN  P \cup {l \o " " \o w : l \in P, w \in Words}

WordLines == UNION {{l, l \o " "} : l \in WordLinesUpTo(MaxWords)}

CharAlphabet == {"a", " ", "-", "\"", "'", "é"}

RECURSIVE CharLinesUpTo(_)
CharLinesUpTo(k) ==
    IF k = 0 THEN {""}
    ELSE LET P == CharLinesUpTo(k - 1)
         IN  P \cup {l \o c : l \in P, c \in CharAlphabet}

CharLines == CharLinesUpTo(MaxChars)

ExampleLines ==
    {"prog ", "prog --verb", "prog config ", "prog frobnicate",
     "prog completion generate --shell ba", "prog help", "prog upgrade",
     "prog --config ma", "prog --outdir s", "prog deploy start x",
     "prog config se",
     "prog é --verbose tr"}

\* One global option of every name and declared type, with and without a
\* choices list, typed in its long and in its short form before a value
OptionNames ==
    {"config", "file", "input", "output", "dir", "directory", "output-dir",
     "level"}

OptionTypes ==
    {None, Some("choice"), Some("file"), Some("dir"), Some("bool"),
     Some("flag"), Some("str"), Some("int")}

CfgTyped(name, type, choices) ==
    [cli |-> Some(Cli(None, Some(<<Opt(name, Some("n"), type, choices)>>), None))]

TypedConfigs ==
    {CfgTyped(n, t, ch) : n \in OptionNames, t \in OptionTypes,
                          ch \in {None, Some(<<"yaml", "json", "yaml">>)}}

TypedLines(config) ==
    {"prog --" \o Unwrap(Unwrap(config.cli).options)[1].name \o " v", "prog -n v"}

AllCursors(l) == {None} \cup {Some(n) : n \in 0..(ByteLen(l) + 1)}

\* The requests: every example line at every cursor in every environment, the
\* word lines in full under every specification, the character lines at every
\* cursor under one specification, the typed options in every directory.
Requests ==
    UNION {{[file |-> f, dir |-> d, line |-> l, cursor |-> c] :
                    f \in Files, d \in Dirs, c \in AllCursors(l)} : l \in ExampleLines}
    \cup {[file |-> FileOf("Ok", c), dir |-> DirOk, line |-> l, cursor |-> None] :
             c \in Configs, l \in WordLines}
    \cup UNION {{[file |-> FileOf("Ok", CfgApp), dir |-> DirOk, line |-> l,
                  cursor |-> c] : c \in AllCursors(l)} : l \in CharLines}
    \cup UNION {{[file |-> FileOf("Ok", c), dir |-> d, line |-> l,
                  cursor |-> None] : d \in Dirs, l \in TypedLines(c)} :
                c \in TypedConfigs}

(***************************************************************************)
(* Discovery of the specification file: the working directory and its      *)
(* ancestors up to the root, each with or without a goobits.yaml.          *)
(***************************************************************************)
MaxDepth == 3

\* tree[k + 1] is the goobits.yaml of the k-th ancestor of the working
\* directory (0 the directory itself, the last one the root)
Trees ==
    UNION {[1..(d + 1) -> {"NotFound", "Ok", "Malformed"}] : d \in 0..MaxDepth}

ExplicitPaths == {None, Some("given.yaml"), Some("absent.yaml")}

RECURSIVE Ups(_)
Ups(k) == IF k = 0 THEN "" ELSE "../" \o Ups(k - 1)

\* current.join("goobits.yaml") at the k-th ancestor
PathAt(k) == Ups(k) \o "goobits.yaml"

FallbackPath == "./goobits.yaml"

TreeFile(status) ==
    FileOf(status, IF status = "NotFound" THEN EmptyConfig ELSE CfgApp)

\* What fs::read_to_string and the parser meet at a path
FileAtPath(tree, path) ==
    IF path = FallbackPath THEN TreeFile(tree[1])
    ELSE IF \E k \in 0..(Len(tree) - 1) : path = PathAt(k)
    THEN TreeFile(tree[1 + CHOOSE k \in 0..(Len(tree) - 1) : path = PathAt(k)])
    ELSE IF path = "given.yaml" THEN FileOf("Ok", CfgShadow)
    ELSE FileOf("NotFound", EmptyConfig)

\* Were the search to pass over a file that cannot be loaded
Exists_Loadable(f) == f.status = "Ok"

\* Path::exists
Exists(f) == f.status # "NotFound"

\* explicit is the argument of new and tree the file system; current is the
\* local of find_config, examined the directories it has looked into,
\* config_path the path that new settles on
SearchIdle == [explicit |-> None, tree |-> <<"NotFound">>, current |-> 0,
               examined |-> <<>>, config_path |-> None]

(***************************************************************************)
(* commands.rs: the registry of the commands of the generated CLI          *)
(***************************************************************************)
Ok == [ok |-> TRUE, error |-> ""]

Err(msg) == [ok |-> FALSE, error |-> msg]

\* CommandArgs::get_arg(index).is_none()
ArgMissing(args, index) == index + 1 > Len(args.args)

\* Were hello to keep the validate of the trait, which accepts everything
HelloValidate_Default(args) == Ok

\* HelloCommand::validate
HelloValidate(args) ==
    IF ArgMissing(args, 0) THEN Err("Missing required argument: name") ELSE Ok

\* HelloCommand::execute
HelloExecute(args) ==
    IF ArgMissing(args, 0) THEN Err("Missing required argument: name") ELSE Ok

\* ProcessCommand::validate
ProcessValidate(args) ==
    IF ArgMissing(args, 0) THEN Err("Missing required argument: input")
    ELSE IF IsSome(args.format) /\ Unwrap(args.format) \notin {"json", "yaml", "text"}
    THEN Err("Invalid value for --format")
    ELSE Ok

\* ProcessCommand::execute
ProcessExecute(args) ==
    IF ArgMissing(args, 0) THEN Err("Missing required argument: input") ELSE Ok

\* create_command_registry: the names registered
RegisteredCommands == {"hello", "process"}

Validate(name, args) ==
    IF name = "hello" THEN HelloValidate(args) ELSE ProcessValidate(args)

Execute(name, args) ==
    IF name = "hello" THEN HelloExecute(args) ELSE ProcessExecute(args)

MaxArgs == 2

CommandNames == RegisteredCommands \cup {"invalid-command-that-does-not-exist"}

\* CommandArgs: the positional arguments and the format option
ArgsBefore ==
    {[args |-> a, format |-> f] :
        a \in {<<>>, <<"test_value">>, <<"test_name">>},
        f \in {None, Some("json"), Some("text"), Some("xml")}}

\* name and args are the parameters of execute, ran the methods of the command
\* it has called, validated and result what they and it returned
RegistryIdle ==
    [pc |-> "idle", name |-> "", args |-> [args |-> <<>>, format |-> None],
     ran |-> <<>>, validated |-> Ok, result |-> Ok]

(***************************************************************************)
(* hooks.rs: the registry of the hooks run around a command                *)
(***************************************************************************)
ExecutionPhases == {"PreCommand", "PostCommand", "OnError", "OnSuccess"}

\* register_global_hooks: global_hooks.get(&phase)
GlobalHooks(phase) ==
    CASE phase = "PreCommand" -> <<"global_pre_command">>
      [] phase = "PostCommand" -> <<"global_post_command">>
      [] phase = "OnError" -> <<"global_error_handler">>
      [] OTHER -> <<>>

\* register_builtin_hooks: builtin_hooks.get(command), then .get(&phase)
BuiltinHook(command, phase) ==
    IF command \in {"hello", "process"} /\ phase = "PreCommand"
    THEN Some("pre_" \o command)
    ELSE IF command \in {"hello", "process"} /\ phase = "PostCommand"
    THEN Some("post_" \o command)
    ELSE None

\* The places at which a dynamic hook may be registered, each empty or holding
\* a hook that returns Ok or a hook that returns an error
DynamicPlaces ==
    {<<"hello", "PreCommand">>, <<"process", "PostCommand">>,
     <<"deploy", "OnError">>, <<"hello", "OnSuccess">>}

DynamicRegistrations == [DynamicPlaces -> {"none", "ok", "err"}]

DynamicName(command, phase) == "dynamic_" \o command \o "_" \o phase

\* dynamic_hooks.get(command), then .get(&phase)
DynamicHook(dynamic, command, phase) ==
    IF <<command, phase>> \in DynamicPlaces /\ dynamic[<<command, phase>>] # "none"
    THEN Some(DynamicName(command, phase))
    ELSE None

HookCommands == {"hello", "process", "deploy"}

\* What a hook returns: global_pre_command fails when the working directory
\* of the context does not exist, the other built-in hooks return Ok, a
\* dynamic hook returns what its library function returns
HookResult(h, hk) ==
    IF h = "global_pre_command"
    THEN IF hk.working_dir_exists THEN Ok
         ELSE Err("Working directory does not exist")
    ELSE IF h = DynamicName(hk.command, hk.phase)
            /\ hk.dynamic[<<hk.command, hk.phase>>] = "err"
    THEN Err("dynamic hook failed")
    ELSE Ok

\* Were the result of a hook dropped instead of propagated
Propagate_Dropped(r, next) == next

\* hook(context)?: where execute_hooks goes on after a hook has returned r
Propagate(r, next) == IF r.ok THEN next ELSE "returned"

\* command, phase and working_dir_exists are the parameters of execute_hooks,
\* dynamic the hooks registered; i is the place in the global hooks, ran
\* the hooks called so far, result what execute_hooks returns
HooksIdle ==
    [pc |-> "idle", command |-> "", phase |-> "PreCommand",
     working_dir_exists |-> TRUE,
     dynamic |-> [p \in DynamicPlaces |-> "none"],
     i |-> 1, ran |-> <<>>, result |-> Ok]

(***************************************************************************)
(* The engine as a state machine: the environment (file, dir), one request *)
(* (line, cursor) and the engine serving it.                               *)
(***************************************************************************)
VARIABLES file, dir, line, cursor, pc, calls, engine, tokens, context,
          completions, scan, search, registry, hooks

vars == <<file, dir, line, cursor, pc, calls, engine, tokens, context,
          completions, scan, search, registry, hooks>>

Init ==
    /\ \E r \in Requests :
          /\ file = r.file
          /\ dir = r.dir
          /\ line = r.line
          /\ cursor = r.cursor
    /\ pc = "start"
    /\ calls = 0
    /\ engine = [config |-> EmptyConfig]
    /\ tokens = <<>>
    /\ context = NewContext("Unknown")
    /\ completions = <<>>
    /\ scan = ScanIdle
    /\ search = SearchIdle
    /\ registry = RegistryIdle
    /\ hooks = HooksIdle

\* CompletionEngine::new
New ==
    /\ pc = "start"
    /\ engine' = [config |-> load_config(file)]
    /\ pc' = "ready"
    /\ UNCHANGED <<file, dir, line, cursor, calls, tokens, context, completions,
                   scan>>
    /\ UNCHANGED <<search, registry, hooks>>

\* CompletionEngine::get_completions; the seed is the iteration order that the
\* hash maps and the hash set of this call happen to have. The call is one
\* step here: the locals of its scan (scan) show only in SpecScan.
GetCompletions ==
    /\ pc \in {"ready", "done"}
    /\ calls < MaxCalls
    /\ calls' = calls + 1
    /\ \E parsed \in {parse_command_line(line, cursor)} :
          IF parsed.panic
          THEN /\ pc' = "panicked"
               /\ UNCHANGED <<tokens, context, completions>>
          ELSE \E ctx \in {analyze_context(engine.config, parsed.tokens)} :
               \E seed \in 0..MaxSeed :
                  /\ pc' = "done"
                  /\ tokens' = parsed.tokens
                  /\ context' = ctx
                  /\ completions' =
                        CompletionsOfContext(engine.config, ctx, dir, seed)
    /\ UNCHANGED <<file, dir, line, cursor, engine, scan>>
    /\ UNCHANGED <<search, registry, hooks>>

Next ==
    \/ New
    \/ GetCompletions

Spec == Init /\ [][Next]_vars

\* The completion process seen from the shell, its parameters supplied: the
\* lines printed, and the exit code (0 on return from main, 101 when the main
\* thread has panicked)
Stdout == IF pc = "done" THEN completions ELSE <<>>

ExitCode == IF pc = "panicked" THEN 101 ELSE 0

(***************************************************************************)
(* parse_command_line run step by step: the slice, one loop iteration per  *)
(* character, the return. The code is synchronous and single-threaded: a   *)
(* step that can be taken is taken.                                        *)
(***************************************************************************)
ScanRequests ==
    UNION {{[line |-> l, cursor |-> c] : c \in AllCursors(l)} : l \in ExampleLines}
    \cup {[line |-> l, cursor |-> None] : l \in CharLines}

\* Before the call: no line yet
InitScan ==
    /\ file = FileOf("Ok", CfgApp)
    /\ dir = DirOk
    /\ line = ""
    /\ cursor = None
    /\ pc = "idle"
    /\ calls = 0
    /\ engine = [config |-> EmptyConfig]
    /\ tokens = <<>>
    /\ context = NewContext("Unknown")
    /\ completions = <<>>
    /\ scan = ScanIdle
    /\ search = SearchIdle
    /\ registry = RegistryIdle
    /\ hooks = HooksIdle

\* &line[..cursor_pos.min(line.len())]
RelevantLine == SliceTo(line, CursorEnd(line, cursor))

\* The call with a line and a cursor
ScanCall ==
    /\ pc = "idle"
    /\ \E r \in ScanRequests : line' = r.line /\ cursor' = r.cursor
    /\ pc' = "call"
    /\ UNCHANGED <<file, dir, calls, engine, tokens, context, completions, scan>>
    /\ UNCHANGED <<search, registry, hooks>>

\* The slice and the initialisation of the locals
ScanSlice ==
    /\ pc = "call"
    /\ IF ~IsCharBoundary(line, CursorEnd(line, cursor))
       THEN pc' = "panicked" /\ scan' = scan
       ELSE /\ pc' = "loop"
            /\ scan' = [ScanIdle EXCEPT !.relevant_line = RelevantLine,
                                        !.pos = 1]
    /\ UNCHANGED <<file, dir, line, cursor, calls, engine, tokens, context,
                   completions>>
    /\ UNCHANGED <<search, registry, hooks>>

\* One iteration of the for loop
ScanChar ==
    /\ pc = "loop"
    /\ scan.pos <= Len(scan.relevant_line)
    /\ scan' = ScanAdvance(scan, CharAt(scan.relevant_line, scan.pos))
    /\ UNCHANGED <<file, dir, line, cursor, pc, calls, engine, tokens, context,
                   completions>>
    /\ UNCHANGED <<search, registry, hooks>>

\* The iterator is exhausted: the final token, then Ok(tokens)
ScanReturn ==
    /\ pc = "loop"
    /\ scan.pos > Len(scan.relevant_line)
    /\ tokens' = ScanResult(scan.st)
    /\ pc' = "returned"
    /\ UNCHANGED <<file, dir, line, cursor, calls, engine, context, completions,
                   scan>>
    /\ UNCHANGED <<search, registry, hooks>>

NextScan ==
    \/ ScanCall
    \/ ScanSlice
    \/ ScanChar
    \/ ScanReturn

SpecScan == InitScan /\ [][NextScan]_vars /\ WF_vars(NextScan)

(***************************************************************************)
(* CompletionEngine::new run step by step: the choice of the path, one     *)
(* iteration of the search per directory, the load.                        *)
(***************************************************************************)
InitFind ==
    /\ file = FileOf("NotFound", EmptyConfig)
    /\ dir = DirOk
    /\ line = ""
    /\ cursor = None
    /\ pc = "idle"
    /\ calls = 0
    /\ engine = [config |-> EmptyConfig]
    /\ tokens = <<>>
    /\ context = NewContext("Unknown")
    /\ completions = <<>>
    /\ scan = ScanIdle
    /\ search = SearchIdle
    /\ registry = RegistryIdle
    /\ hooks = HooksIdle

\* new(config_path) is called in some file system
FindCall ==
    /\ pc = "idle"
    /\ \E e \in ExplicitPaths, t \in Trees :
          search' = [SearchIdle EXCEPT !.explicit = e, !.tree = t]
    /\ pc' = "new"
    /\ UNCHANGED <<file, dir, line, cursor, calls, engine, tokens, context,
                   completions, scan>>
    /\ UNCHANGED <<registry, hooks>>

\* config_path.unwrap_or_else(|| Self::find_config()): the search starts only
\* without an explicit path
FindStart ==
    /\ pc = "new"
    /\ IF IsSome(search.explicit)
       THEN /\ search' = [search EXCEPT !.config_path = search.explicit]
            /\ pc' = "load"
       ELSE /\ search' = search
            /\ pc' = "search"
    /\ UNCHANGED <<file, dir, line, cursor, calls, engine, tokens, context,
                   completions, scan>>
    /\ UNCHANGED <<registry, hooks>>

\* One iteration of the loop of find_config, and the fallback after it
FindExamine ==
    /\ pc = "search"
    /\ LET k == search.current
           seen == [search EXCEPT !.examined = Append(@, k)]
       IN  IF Exists(TreeFile(search.tree[k + 1]))
           THEN /\ search' = [seen EXCEPT !.config_path = Some(PathAt(k))]
                /\ pc' = "load"
           ELSE IF k + 1 < Len(search.tree)
           THEN /\ search' = [seen EXCEPT !.current = k + 1]
                /\ pc' = "search"
           ELSE /\ search' = [seen EXCEPT !.config_path = Some(FallbackPath)]
                /\ pc' = "load"
    /\ UNCHANGED <<file, dir, line, cursor, calls, engine, tokens, context,
                   completions, scan>>
    /\ UNCHANGED <<registry, hooks>>

\* load_config(&config_path) and the construction of the engine
FindLoad ==
    /\ pc = "load"
    /\ file' = FileAtPath(search.tree, Unwrap(search.config_path))
    /\ engine' = [config |-> load_config(file')]
    /\ pc' = "ready"
    /\ UNCHANGED <<dir, line, cursor, calls, tokens, context, completions, scan,
                   search>>
    /\ UNCHANGED <<registry, hooks>>

NextFind ==
    \/ FindCall
    \/ FindStart
    \/ FindExamine
    \/ FindLoad

SpecFind == InitFind /\ [][NextFind]_vars /\ WF_vars(NextFind)

(***************************************************************************)
(* CommandRegistry::execute run step by step, called as the tests call it: *)
(* with a name and arguments, and again after one more argument is pushed. *)
(***************************************************************************)
InitRegistry == InitFind

\* registry.execute(name, &args)
RegistryCall ==
    /\ \/ /\ registry.pc = "idle"
          /\ \E n \in CommandNames, a \in ArgsBefore :
                registry' = [RegistryIdle EXCEPT !.pc = "called", !.name = n,
                                                 !.args = a]
       \/ /\ registry.pc = "pushed"
          /\ registry' = [registry EXCEPT !.pc = "called", !.ran = <<>>,
                                          !.validated = Ok, !.result = Ok]
    /\ UNCHANGED <<file, dir, line, cursor, pc, calls, engine, tokens, context,
                   completions>>
    /\ UNCHANGED <<scan, search, hooks>>

\* self.commands.get(name)
RegistryLookup ==
    /\ registry.pc = "called"
    /\ IF registry.name \in RegisteredCommands
       THEN registry' = [registry EXCEPT !.pc = "validate"]
       ELSE registry' = [registry EXCEPT !.pc = "returned",
                                         !.result = Err("Unknown command")]
    /\ UNCHANGED <<file, dir, line, cursor, pc, calls, engine, tokens, context,
                   completions>>
    /\ UNCHANGED <<scan, search, hooks>>

\* command.validate(args)?
RegistryValidate ==
    /\ registry.pc = "validate"
    /\ LET v == Validate(registry.name, registry.args)
       IN  registry' = [registry EXCEPT
                           !.ran = Append(@, "validate"),
                           !.validated = v,
                           !.result = IF v.ok THEN @ ELSE v,
                           !.pc = IF v.ok THEN "execute" ELSE "returned"]
    /\ UNCHANGED <<file, dir, line, cursor, pc, calls, engine, tokens, context,
                   completions>>
    /\ UNCHANGED <<scan, search, hooks>>

\* command.execute(args)
RegistryExecute ==
    /\ registry.pc = "execute"
    /\ registry' = [registry EXCEPT
                       !.ran = Append(@, "execute"),
                       !.result = Execute(registry.name, registry.args),
                       !.pc = "returned"]
    /\ UNCHANGED <<file, dir, line, cursor, pc, calls, engine, tokens, context,
                   completions>>
    /\ UNCHANGED <<scan, search, hooks>>

\* args.args.push(..) between two calls
TestPush ==
    /\ registry.pc = "returned"
    /\ Len(registry.args.args) < MaxArgs
    /\ registry' = [registry EXCEPT !.pc = "pushed",
                                    !.args.args = Append(@, "test_value")]
    /\ UNCHANGED <<file, dir, line, cursor, pc, calls, engine, tokens, context,
                   completions>>
    /\ UNCHANGED <<scan, search, hooks>>

NextRegistry ==
    \/ RegistryCall
    \/ RegistryLookup
    \/ RegistryValidate
    \/ RegistryExecute
    \/ TestPush

SpecRegistry == InitRegistry /\ [][NextRegistry]_vars

(***************************************************************************)
(* HookRegistry::execute_hooks run step by step, one hook per step         *)
(***************************************************************************)
InitHooks == InitFind

\* execute_hooks(command, phase, context) on a registry with some dynamic hooks
HooksCall ==
    /\ hooks.pc = "idle"
    /\ \E c \in HookCommands, p \in ExecutionPhases, w \in BOOLEAN,
          d \in DynamicRegistrations :
          hooks' = [HooksIdle EXCEPT !.pc = "global", !.command = c,
                                     !.phase = p, !.working_dir_exists = w,
                                     !.dynamic = d]
    /\ UNCHANGED <<file, dir, line, cursor, pc, calls, engine, tokens, context,
                   completions>>
    /\ UNCHANGED <<scan, search, registry>>

\* One iteration of the loop over the global hooks of the phase
HooksGlobal ==
    /\ hooks.pc = "global"
    /\ hooks.i <= Len(GlobalHooks(hooks.phase))
    /\ LET h == GlobalHooks(hooks.phase)[hooks.i]
           r == HookResult(h, hooks)
       IN  hooks' = [hooks EXCEPT !.ran = Append(@, h), !.i = @ + 1,
                                  !.result = IF r.ok THEN @ ELSE r,
                                  !.pc = Propagate(r, "global")]
    /\ UNCHANGED <<file, dir, line, cursor, pc, calls, engine, tokens, context,
                   completions>>
    /\ UNCHANGED <<scan, search, registry>>

\* The built-in hook of the command and phase, if there is one
HooksBuiltin ==
    /\ hooks.pc = "global"
    /\ hooks.i > Len(GlobalHooks(hooks.phase))
    /\ LET hook == BuiltinHook(hooks.command, hooks.phase)
       IN  IF IsSome(hook)
           THEN LET r == HookResult(Unwrap(hook), hooks)
                IN  hooks' = [hooks EXCEPT !.ran = Append(@, Unwrap(hook)),
                                           !.result = IF r.ok THEN @ ELSE r,
                                           !.pc = Propagate(r, "dynamic")]
           ELSE hooks' = [hooks EXCEPT !.pc = "dynamic"]
    /\ UNCHANGED <<file, dir, line, cursor, pc, calls, engine, tokens, context,
                   completions>>
    /\ UNCHANGED <<scan, search, registry>>

\* The dynamic hook of the command and phase, if one is registered
HooksDynamic ==
    /\ hooks.pc = "dynamic"
    /\ LET hook == DynamicHook(hooks.dynamic, hooks.command, hooks.phase)
       IN  IF IsSome(hook)
           THEN LET r == HookResult(Unwrap(hook), hooks)
                IN  hooks' = [hooks EXCEPT !.ran = Append(@, Unwrap(hook)),
                                           !.result = IF r.ok THEN @ ELSE r,
                                           !.pc = Propagate(r, "return")]
           ELSE hooks' = [hooks EXCEPT !.pc = "return"]
    /\ UNCHANGED <<file, dir, line, cursor, pc, calls, engine, tokens, context,
                   completions>>
    /\ UNCHANGED <<scan, search, registry>>

\* Ok(())
HooksReturn ==
    /\ hooks.pc = "return"
    /\ hooks' = [hooks EXCEPT !.pc = "returned", !.result = Ok]
    /\ UNCHANGED <<file, dir, line, cursor, pc, calls, engine, tokens, context,
                   completions>>
    /\ UNCHANGED <<scan, search, registry>>

NextHooks ==
    \/ HooksCall
    \/ HooksGlobal
    \/ HooksBuiltin
    \/ HooksDynamic
    \/ HooksReturn

SpecHooks == InitHooks /\ [][NextHooks]_vars

(***************************************************************************)
(* Properties                                                              *)
(***************************************************************************)
\* The line up to the cursor, as the tokenizer sees it
TypedLine == SliceTo(line, CursorEnd(line, cursor))

EndsInWhitespace(s) == s # "" /\ IsWhitespace(CharAt(s, Len(s)))

LastToken == tokens[Len(tokens)]

StrictlyAscending(seq) ==
    \A i \in 1..(Len(seq) - 1) : StrLess(seq[i], seq[i + 1])

\* The sequence lists exactly the members of the set, each once
ListsExactly(seq, S) == Range(seq) = S /\ Len(seq) = Cardinality(S)

\* C1: whatever the specification, the line and the cursor, the list that
\* get_completions returns is in ascending order and holds no entry twice.
C1_SortedNoDuplicates == pc = "done" => StrictlyAscending(completions)

\* A user command named help next to the built-in help: help is listed once.
C1_Witness ==
    /\ pc = "done"
    /\ "help" \in DOMAIN CliCommands(engine.config)
    /\ context.context_type = "Command"
    /\ Len(completions) > 4
    /\ "help" \in Range(completions)

\* C2: when the typed line does not end in whitespace, every candidate starts
\* with the last token typed after the program name, in every context; for
\* "prog --verb" with a global option verbose the result holds --verbose and
\* nothing that does not start with "--verb".
C2_PrefixInvariant ==
    (pc = "done" /\ Len(tokens) >= 2 /\ ~EndsInWhitespace(TypedLine)) =>
        /\ \A i \in 1..Len(completions) : StartsWith(completions[i], LastToken)
        /\ (TypedLine = "prog --verb"
              /\ \E i \in 1..Len(GlobalOptionsOf(engine.config)) :
                    GlobalOptionsOf(engine.config)[i].name = "verbose")
           => "--verbose" \in Range(completions)

\* The flag of the specification that advertises the upgrade command
UpgradeFlag(config) ==
    IF IsSome(config.cli) THEN Unwrap(config.cli).enable_upgrade_command
    ELSE None

\* The top-level commands of the specification united with the built-in ones
CommandUnion(config) ==
    DOMAIN CliCommands(config)
    \cup {"help", "version", "completion", "config"}
    \cup (IF UpgradeFlag(config) = Some(FALSE) THEN {} ELSE {"upgrade"})

\* What a request for a first word is to return: the union, narrowed to the
\* members that start with the word typed after the program name, if any
FirstWordCandidates ==
    {c \in CommandUnion(engine.config) :
        Len(tokens) = 2 => StartsWith(c, tokens[2])}

\* C3 as stated: with only the program name typed the result is exactly the
\* union of the specification's commands and the built-in ones, and with one
\* word P typed after it exactly the members of the union that start with P.
C3_AnyFirstWord ==
    (pc = "done" /\ Len(tokens) \in {1, 2}) =>
        ListsExactly(completions, FirstWordCandidates)

\* C3 amended: the same, for a word P that does not start with a dash.
C3_CommandCompletions ==
    (pc = "done" /\ Len(tokens) \in {1, 2}
       /\ (Len(tokens) = 2 => ~StartsWith(tokens[2], "-"))) =>
        ListsExactly(completions, FirstWordCandidates)

\* A partial first word that keeps some commands of the union and drops others
C3_Witness ==
    /\ pc = "done"
    /\ Len(tokens) = 2
    /\ ~StartsWith(tokens[2], "-")
    /\ DOMAIN CliCommands(engine.config) # {}
    /\ Len(completions) >= 2
    /\ Len(completions) < Cardinality(CommandUnion(engine.config))

\* C4: with the specification file missing or unreadable, "prog " returns the
\* built-in commands help, version, completion, config and upgrade; upgrade is
\* left out only when the flag is explicitly false.
C4_MissingSpecification ==
    (pc = "done" /\ line = "prog " /\ CursorEnd(line, cursor) = ByteLen(line)) =>
        /\ file.status \in {"NotFound", "Unreadable"} =>
              completions = <<"completion", "config", "help", "upgrade", "version">>
        /\ "upgrade" \in Range(completions)
              <=> UpgradeFlag(engine.config) # Some(FALSE)

C4_Witness ==
    /\ pc = "done"
    /\ line = "prog "
    /\ cursor = None
    /\ file.status = "NotFound"
    /\ Len(completions) = 5

\* C5: "prog config " with the cursor at its end is a Subcommand context for
\* the command config and returns get, path, reset, set.
C5_ConfigSubcommands ==
    (pc = "done" /\ line = "prog config "
       /\ CursorEnd(line, cursor) = ByteLen(line)) =>
        /\ context.context_type = "Subcommand"
        /\ context.current_command = Some("config")
        /\ completions = <<"get", "path", "reset", "set">>

\* C6: "prog completion generate --shell ba" is an OptionValue context for the
\* option shell and returns bash alone.
C6_ShellValues ==
    (pc = "done" /\ line = "prog completion generate --shell ba"
       /\ CursorEnd(line, cursor) = ByteLen(line)) =>
        /\ context.context_type = "OptionValue"
        /\ IsSome(context.option)
        /\ TrimStartMatches(Unwrap(context.option), "-") = "shell"
        /\ completions = <<"bash">>

\* C7: get_completions returns a list for every line and every cursor; it
\* never panics.
C7_NeverPanics == pc # "panicked"

\* C8: a second call with the same line and cursor on the same specification
\* and directory returns the list the first call returned, whatever order the
\* hash maps and the hash set iterate in.
C8_Idempotent ==
    [][(pc = "done" /\ pc' = "done" /\ line' = line /\ cursor' = cursor
          /\ engine' = engine /\ dir' = dir)
       => completions' = completions]_vars

\* A second call completed on a specification with several commands to order
C8_Witness ==
    /\ pc = "done"
    /\ calls = 2
    /\ Cardinality(DOMAIN CliCommands(engine.config)) >= 2
    /\ context.context_type = "Command"
    /\ Len(completions) >= 2

PreviousToken == tokens[Len(tokens) - 1]

\* C9: a last token (after the program name) that starts with a dash makes the
\* context Option, whatever the other tokens are.
C9_DashLastIsOption ==
    (pc = "done" /\ Len(tokens) >= 2 /\ StartsWith(LastToken, "-")) =>
        context.context_type = "Option"

\* The last token is a declared subcommand name of the matched command, and
\* the token before it starts with a dash as well
C9_Witness ==
    /\ pc = "done"
    /\ Len(tokens) = 4
    /\ StartsWith(LastToken, "-")
    /\ StartsWith(PreviousToken, "-")
    /\ HasKey(CliCommands(engine.config), tokens[2])
    /\ IsSome(CliCommands(engine.config)[tokens[2]].subcommands)
    /\ HasKey(Unwrap(CliCommands(engine.config)[tokens[2]].subcommands), LastToken)
    /\ context.context_type = "Option"

\* The first token after the program name is no command of the specification
\* and neither of the last two tokens starts with a dash
UnknownFirstToken ==
    /\ pc = "done"
    /\ Len(tokens) >= 2
    /\ ~HasKey(CliCommands(engine.config), tokens[2])
    /\ ~StartsWith(LastToken, "-")
    /\ Len(tokens) >= 3 => ~StartsWith(PreviousToken, "-")

\* C10 as stated: an unmatched first token makes the context Command for any
\* number of tokens after the program name.
C10_UnknownIsCommand ==
    UnknownFirstToken => context.context_type = "Command"

\* C10 amended: an unmatched first token makes the context Command, with the
\* candidates the top-level commands that start with it, when it is the only
\* token after the program name; with more tokens the context is Unknown and
\* there is no candidate.
C10_UnknownFirstToken ==
    UnknownFirstToken =>
        IF Len(tokens) = 2
        THEN /\ context.context_type = "Command"
             /\ context.partial = Some(tokens[2])
             /\ ListsExactly(completions, FirstWordCandidates)
        ELSE /\ context.context_type = "Unknown"
             /\ completions = <<>>

C10_Witness ==
    /\ UnknownFirstToken
    /\ Len(tokens) = 3
    /\ DOMAIN CliCommands(engine.config) # {}
    /\ context.context_type = "Unknown"

\* The command of the specification named by the first token after the
\* program name declares subcommands
FirstIsCommandWithSubcommands ==
    /\ Len(tokens) >= 2
    /\ HasKey(CliCommands(engine.config), tokens[2])
    /\ IsSome(CliCommands(engine.config)[tokens[2]].subcommands)

\* C11: with exactly two tokens after the program name, neither starting with
\* a dash, and the first a command that declares subcommands, the context is
\* Subcommand for that command with the second token as partial text; with
\* more than two tokens after the same first token it is never Subcommand.
C11_SubcommandAtDepthTwo ==
    (pc = "done" /\ FirstIsCommandWithSubcommands) =>
        /\ (Len(tokens) = 3 /\ ~StartsWith(tokens[2], "-")
              /\ ~StartsWith(tokens[3], "-"))
           => /\ context.context_type = "Subcommand"
              /\ context.current_command = Some(tokens[2])
              /\ context.partial = Some(tokens[3])
        /\ Len(tokens) > 3 => context.context_type # "Subcommand"

\* Both cases are met: deeper lines reach a known command with subcommands
C11_Witness ==
    /\ pc = "done"
    /\ FirstIsCommandWithSubcommands
    /\ Len(tokens) = 3
    /\ context.context_type = "Subcommand"
    /\ context.partial = Some("start")

\* C12: a second-to-last token that starts with a dash, followed by a last
\* token that does not, makes the context OptionValue for that second-to-last
\* token, with or without a command or subcommand matched before it.
C12_ValueOfPreviousOption ==
    (pc = "done" /\ Len(tokens) >= 3 /\ StartsWith(PreviousToken, "-")
       /\ ~StartsWith(LastToken, "-")) =>
        /\ context.context_type = "OptionValue"
        /\ context.option = Some(PreviousToken)

\* An option valued below a command and one of its subcommands
C12_Witness ==
    /\ pc = "done"
    /\ Len(tokens) = 5
    /\ FirstIsCommandWithSubcommands
    /\ HasKey(Unwrap(CliCommands(engine.config)[tokens[2]].subcommands), tokens[3])
    /\ StartsWith(PreviousToken, "-")
    /\ context.context_type = "OptionValue"
    /\ context.option = Some(PreviousToken)

\* C13: the context carries the command when the first token after the program
\* name is a known command, the subcommand when the second token is one of
\* its subcommands, and the partial text when the last token is a partial
\* word; also in the Option and OptionValue contexts found by the dash checks.
C13_ContextCarriesMatches ==
    (pc = "done" /\ Len(tokens) >= 2) =>
        /\ HasKey(CliCommands(engine.config), tokens[2])
           => context.current_command = Some(tokens[2])
        /\ (FirstIsCommandWithSubcommands /\ Len(tokens) >= 3
              /\ HasKey(Unwrap(CliCommands(engine.config)[tokens[2]].subcommands),
                        tokens[3]))
           => context.subcommand = Some(tokens[3])
        /\ ~EndsInWhitespace(TypedLine) => context.partial = Some(LastToken)

\* The flags "--name" and "-short" of the options of a node
FlagsOfNode(node) == Range(OptionFlags(NodeOptions(Some(node))))

\* The nodes whose options a line below the command tokens[2] may complete:
\* the command, and the subcommand named by the token after it
NodesBelowCommand ==
    LET command_config == CliCommands(engine.config)[tokens[2]]
    IN  {command_config}
        \cup (IF Len(tokens) >= 3 /\ IsSome(command_config.subcommands)
                 /\ HasKey(Unwrap(command_config.subcommands), tokens[3])
              THEN {Unwrap(command_config.subcommands)[tokens[3]]}
              ELSE {})

\* C14: in an Option context below a user-defined command c the candidates
\* are the global option flags, the flags of the options of c (or of the
\* matched subcommand) and --help, -h, --version, -V: every option declared
\* on c is offered, also when the last token is a dash-prefixed fragment.
C14_CommandOptionsOffered ==
    (pc = "done" /\ Len(tokens) >= 2
       /\ HasKey(CliCommands(engine.config), tokens[2])
       /\ context.context_type = "Option") =>
        \E node \in NodesBelowCommand :
            Range(completions) =
                Range(OptionFlags(GlobalOptionsOf(engine.config)))
                \cup FlagsOfNode(node)
                \cup Range(StandardOptions)

\* The subcommand candidates of a matched command, as C15 states them
SubcommandCandidates(command) ==
    IF command = "completion" THEN {"generate", "install", "instructions"}
    ELSE IF command = "config" THEN {"get", "set", "reset", "path"}
    ELSE DOMAIN Unwrap(CliCommands(engine.config)[command].subcommands)

\* C15: in a Subcommand context the candidates are generate, install,
\* instructions for the command completion and get, set, reset, path for the
\* command config, whatever the specification declares below these names, and
\* the keys of the subcommands mapping for any other command; the result is
\* these candidates narrowed to the partial text.
C15_SubcommandCandidates ==
    (pc = "done" /\ context.context_type = "Subcommand") =>
        LET expected == SubcommandCandidates(Unwrap(context.current_command))
        IN  /\ \A seed \in 0..MaxSeed :
                  ListsExactly(
                      get_subcommand_completions(engine.config, context, seed),
                      expected)
            /\ ListsExactly(completions,
                   {c \in expected : StartsWith(c, Unwrap(context.partial))})

\* The specification declares its own subcommand below config; the hard-coded
\* list is what is offered
C15_Witness ==
    /\ pc = "done"
    /\ context.context_type = "Subcommand"
    /\ context.current_command = Some("config")
    /\ DOMAIN Unwrap(CliCommands(engine.config)["config"].subcommands) = {"show"}
    /\ completions = <<"set">>

\* The option name as typed before the value, without its leading dashes
TypedOptionName == TrimStartMatches(Unwrap(context.option), "-")

\* The OptionSpec that a finished OptionValue classification resolves to
ResolvedOption ==
    IF pc = "done" /\ context.context_type = "OptionValue"
       /\ (IsSome(context.current_command)
           => ~IsSome(BuiltinOptionValues(Unwrap(context.current_command),
                                          TypedOptionName)))
    THEN find_option_config(engine.config, TypedOptionName, context)
    ELSE None

\* A candidate set narrowed to the partial text, when the context carries one
Narrowed(S) ==
    IF IsSome(context.partial)
    THEN {c \in S : StartsWith(c, Unwrap(context.partial))}
    ELSE S

RegularFiles ==
    IF dir.ok THEN {e.name : e \in {x \in Range(dir.entries) : x.file_type = "file"}}
    ELSE {}

Directories ==
    IF dir.ok
    THEN {e.name \o "/" : e \in {x \in Range(dir.entries) : x.file_type = "dir"}}
    ELSE {}

FileOptionNames == {"config", "file", "input", "output"}
DirOptionNames == {"directory", "dir", "output-dir"}
DispatchedTypes == {Some("choice"), Some("file"), Some("dir"), Some("bool"),
                    Some("flag")}

\* The values by the declared type alone, of a type other than file and dir
ValuesByType(o) ==
    /\ (o.option_type = Some("choice") /\ IsSome(o.choices))
          => ListsExactly(completions, Narrowed(Range(Unwrap(o.choices))))
    /\ o.option_type \in {Some("bool"), Some("flag")}
          => ListsExactly(completions, Narrowed({"true", "false"}))
    /\ o.option_type \notin DispatchedTypes => completions = <<>>

\* C16 as stated: once an OptionSpec is resolved the value completions are
\* determined by its declared type alone, whatever the option is named: the
\* choices list for choice, true and false for bool and flag, nothing for an
\* absent or unrecognized type.
C16_ValuesByTypeAlone ==
    IsSome(ResolvedOption) => ValuesByType(Unwrap(ResolvedOption))

\* C16 as the code has it: the declared type alone determines the values when
\* the option is typed by a name other than config, file, input, output,
\* directory, dir, output-dir; a choice type goes by its choices under every
\* name (nothing without a choices list); under the names config, file, input,
\* output every other type lists the regular files, and under the names
\* directory, dir, output-dir every type other than choice and file lists the
\* directories.
C16_ValuesByTypeAndName ==
    IsSome(ResolvedOption) =>
        LET o == Unwrap(ResolvedOption)
        IN  /\ TypedOptionName \notin FileOptionNames \cup DirOptionNames
                  => ValuesByType(o)
            /\ o.option_type = Some("choice")
                  => ListsExactly(completions,
                         IF IsSome(o.choices)
                         THEN Narrowed(Range(Unwrap(o.choices))) ELSE {})
            /\ (o.option_type # Some("choice")
                /\ TypedOptionName \in FileOptionNames)
                  => ListsExactly(completions, Narrowed(RegularFiles))
            /\ (o.option_type \notin {Some("choice"), Some("file")}
                /\ TypedOptionName \in DirOptionNames)
                  => ListsExactly(completions, Narrowed(Directories))

\* A boolean option named output is offered the regular files
C16_Witness ==
    /\ IsSome(ResolvedOption)
    /\ Unwrap(ResolvedOption).option_type = Some("bool")
    /\ TypedOptionName = "output"
    /\ completions = <<"main.rs">>

\* The options declared on the command typed first, or on its subcommand typed
\* second, that go by the typed option name or short alias
OptionsOfTypedCommand ==
    IF Len(tokens) >= 4 /\ HasKey(CliCommands(engine.config), tokens[2])
    THEN LET command == CliCommands(engine.config)[tokens[2]]
             node == IF Len(tokens) >= 5 /\ IsSome(command.subcommands)
                        /\ HasKey(Unwrap(command.subcommands), tokens[3])
                     THEN Unwrap(command.subcommands)[tokens[3]]
                     ELSE command
         IN  {o \in Range(NodeOptions(Some(node))) :
                 o.name = TypedOptionName \/ o.short = Some(TypedOptionName)}
    ELSE {}

\* C17: the option lookup for value completion goes by long name or short
\* alias through the global options and then through the options of the
\* command being completed: an option declared on that command only is found
\* and drives the value completions.
C17_CommandOptionFound ==
    (pc = "done" /\ context.context_type = "OptionValue") =>
        \A o \in OptionsOfTypedCommand :
            ~IsSome(FirstMatch(GlobalOptionsOf(engine.config), TypedOptionName))
            => /\ IsSome(ResolvedOption)
               /\ (o.option_type = Some("choice") /\ IsSome(o.choices))
                     => ListsExactly(completions,
                                     Narrowed(Range(Unwrap(o.choices))))

RECURSIVE Concat(_)
Concat(seq) == IF seq = <<>> THEN "" ELSE Head(seq) \o Concat(Tail(seq))

\* A line read from character i on with quote q open ("" for none): kept is
\* the line without its whitespace outside quoted regions, words the number of
\* maximal runs of kept characters
RECURSIVE UnquotedFrom(_, _, _, _, _)
UnquotedFrom(s, i, q, after_space, acc) ==
    IF i > Len(s) THEN acc
    ELSE LET c == CharAt(s, i)
             dropped == q = "" /\ IsWhitespace(c)
             q2 == IF q = "" THEN (IF c \in {"\"", "'"} THEN c ELSE "")
                   ELSE IF c = q THEN "" ELSE q
         IN  UnquotedFrom(s, i + 1, q2, dropped,
                 IF dropped THEN acc
                 ELSE [kept |-> acc.kept \o c,
                       words |-> acc.words + (IF after_space THEN 1 ELSE 0)])

Unquoted(s) == UnquotedFrom(s, 1, "", TRUE, [kept |-> "", words |-> 0])

\* C18: the tokens, concatenated, are the truncated line with exactly its
\* whitespace outside quoted regions removed, quote characters kept; there is
\* one token, not empty, for each run of characters between such whitespace.
C18_TokensAreUnquotedRuns ==
    pc = "done" =>
        LET u == Unquoted(TypedLine)
        IN  /\ Concat(tokens) = u.kept
            /\ Len(tokens) = u.words
            /\ \A i \in 1..Len(tokens) : tokens[i] # ""

\* Whitespace before an unterminated quote is dropped, whitespace after it kept
C18_Witness ==
    /\ pc = "done"
    /\ TypedLine = " ' "
    /\ tokens = <<"' ">>

\* The typed line without its last character
LineBeforeLast == SubSeq(TypedLine, 1, Len(TypedLine) - 1)

\* C19: an empty trailing token is representable: a line ending in a
\* non-whitespace character followed by one space is tokenized and classified
\* into a result that differs from the result for the line without the space.
C19_TrailingSpaceDistinguished ==
    (/\ pc = "done"
     /\ Len(TypedLine) >= 2
     /\ CharAt(TypedLine, Len(TypedLine)) = " "
     /\ ~EndsInWhitespace(LineBeforeLast))
    => \/ tokens # Tokenize(LineBeforeLast)
       \/ context # analyze_context(engine.config, Tokenize(LineBeforeLast))

\* C20: the tokenizer always terminates: once the line is truncated the loop
\* yields each of its characters once, in order, and then returns the tokens,
\* whatever the quoting state.
C20_ScanTerminates ==
    /\ [](pc = "returned" =>
            /\ scan.seen = RelevantLine
            /\ scan.pos = Len(RelevantLine) + 1
            /\ tokens = Tokenize(RelevantLine))
    /\ (pc = "loop") ~> (pc = "returned")

\* The scan has returned with a quote left open
C20_Witness ==
    /\ pc = "returned"
    /\ scan.st.in_quotes
    /\ scan.seen = " ' "
    /\ tokens = <<"' ">>

\* The first cursor characters of the line, the whole line when the cursor is
\* absent or not smaller than the length of the line
FirstCursorCharacters ==
    SubSeq(line, 1, IF IsSome(cursor) THEN Min(Unwrap(cursor), Len(line))
                    ELSE Len(line))

\* C21: the tokens are those of the first cursor characters of the line, of
\* the whole line when the cursor is absent or not smaller than its length;
\* text at or after the cursor has no influence.
C21_FirstCursorCharacters ==
    pc = "done" => tokens = Tokenize(FirstCursorCharacters)

\* What a request gives under the empty specification
EmptySpecificationResults ==
    {CompletionsOfContext(EmptyConfig,
                          analyze_context(EmptyConfig, Tokenize(TypedLine)),
                          dir, seed) : seed \in 0..MaxSeed}

\* C22: loading never raises: when the specification file is not found, cannot
\* be read or does not parse, the engine is constructed, with a specification
\* of no commands and no global options, and a completion request gives what
\* it gives under the empty specification.
C22_FailedLoadIsEmpty ==
    (file.status # "Ok" /\ pc # "start") =>
        /\ engine.config = EmptyConfig
        /\ CliCommands(engine.config) = EmptyCommands
        /\ GlobalOptionsOf(engine.config) = <<>>
        /\ pc = "done" => completions \in EmptySpecificationResults

\* A file declaring commands that does not parse: the built-in commands only
C22_Witness ==
    /\ file.status = "Malformed"
    /\ file.config = CfgApp
    /\ pc = "done"
    /\ context.context_type = "Command"
    /\ completions # <<>>
    /\ "build" \notin Range(completions)

\* The ancestors (0 the working directory) that hold a goobits.yaml
Holders == {k \in 0..(Len(search.tree) - 1) : search.tree[k + 1] # "NotFound"}

Nearest(S) == CHOOSE k \in S : \A j \in S : k <= j

\* The ancestors 0..k in order
RECURSIVE UpTo(_)
UpTo(k) == IF k < 0 THEN <<>> ELSE Append(UpTo(k - 1), k)

\* C23: with an explicit path the loader reads exactly that location and
\* looks into no directory, even when nothing is there; without one it looks
\* into the working directory and then into each ancestor, nearest first,
\* stops at the first one holding goobits.yaml and reads that file, and stops
\* at the root when none does. The construction always ends.
C23_Discovery ==
    /\ [](pc = "ready" =>
            IF IsSome(search.explicit)
            THEN /\ search.examined = <<>>
                 /\ search.config_path = search.explicit
            ELSE IF Holders # {}
            THEN /\ search.examined = UpTo(Nearest(Holders))
                 /\ search.config_path = Some(PathAt(Nearest(Holders)))
                 /\ file.status = search.tree[Nearest(Holders) + 1]
            ELSE /\ search.examined = UpTo(Len(search.tree) - 1)
                 /\ file.status = "NotFound")
    /\ (pc = "new") ~> (pc = "ready")

\* The nearest file does not parse and a farther one would: the search has
\* stopped at the nearest
C23_Witness ==
    /\ pc = "ready"
    /\ search.explicit = None
    /\ search.tree = <<"NotFound", "Malformed", "Ok", "NotFound">>
    /\ search.examined = <<0, 1>>
    /\ engine.config = EmptyConfig

\* C24: with the shell name and the line supplied, the process prints the
\* sorted, deduplicated candidates one per line and exits with code zero, for
\* every line, cursor and specification.
C24_ExitsZero ==
    pc \in {"done", "panicked"} =>
        /\ ExitCode = 0
        /\ Stdout = completions
        /\ StrictlyAscending(Stdout)

\* C25 as stated: an option resolved to the file type is offered exactly the
\* regular files of the working directory, one resolved to the directory type
\* exactly its directories, each with "/" appended; nothing when the listing
\* fails, and the request returns.
C25_ListingsByType ==
    IsSome(ResolvedOption) =>
        LET t == Unwrap(ResolvedOption).option_type
        IN  /\ t = Some("file")
                  => ListsExactly(completions, Narrowed(RegularFiles))
            /\ t = Some("dir")
                  => ListsExactly(completions, Narrowed(Directories))
            /\ (t \in {Some("file"), Some("dir")} /\ ~dir.ok)
                  => completions = <<>>
            /\ RegularFiles \cap Directories = {}

\* C25 as the code has it: the directory type lists the directories unless
\* the option is typed as config, file, input or output, under which names it
\* lists the regular files as the file type does.
C25_ListingsByTypeAndName ==
    IsSome(ResolvedOption) =>
        LET t == Unwrap(ResolvedOption).option_type
        IN  /\ t = Some("file")
                  => ListsExactly(completions, Narrowed(RegularFiles))
            /\ (t = Some("dir") /\ TypedOptionName \notin FileOptionNames)
                  => ListsExactly(completions, Narrowed(Directories))
            /\ (t = Some("dir") /\ TypedOptionName \in FileOptionNames)
                  => ListsExactly(completions, Narrowed(RegularFiles))
            /\ (t \in {Some("file"), Some("dir")} /\ ~dir.ok)
                  => completions = <<>>
            /\ RegularFiles \cap Directories = {}

\* A directory option in a directory holding a file, a directory and a link
C25_Witness ==
    /\ IsSome(ResolvedOption)
    /\ Unwrap(ResolvedOption).option_type = Some("dir")
    /\ TypedOptionName = "level"
    /\ Len(dir.entries) = 3
    /\ completions = <<"src/">>

\* C26: execute(name, args) runs validate before execute and, when validate
\* fails, returns its error without running execute; a name that is not
\* registered returns an error and runs nothing. hello fails without a
\* positional argument, on validate alone, and succeeds with one.
C26_ValidateBeforeExecute ==
    registry.pc = "returned" =>
        /\ registry.name \notin RegisteredCommands
              => ~registry.result.ok /\ registry.ran = <<>>
        /\ registry.name \in RegisteredCommands
              => IF registry.validated.ok
                 THEN registry.ran = <<"validate", "execute">>
                 ELSE /\ registry.ran = <<"validate">>
                      /\ registry.result = registry.validated
        /\ (registry.name = "hello" /\ registry.args.args = <<>>)
              => ~registry.result.ok /\ registry.ran = <<"validate">>
        /\ (registry.name = "hello" /\ registry.args.args # <<>>)
              => registry.result.ok

\* hello is executed again after the argument is pushed, and succeeds
C26_Witness ==
    /\ registry.pc = "returned"
    /\ registry.name = "hello"
    /\ registry.args.args = <<"test_value">>
    /\ registry.ran = <<"validate", "execute">>
    /\ registry.result.ok

\* The line goes on after config or completion, which the loaded
\* specification does not declare as a command
UndeclaredBuiltinFirst ==
    /\ pc = "done"
    /\ Len(tokens) >= 3
    /\ tokens[2] \in {"config", "completion"}
    /\ ~HasKey(CliCommands(engine.config), tokens[2])

\* C27 as stated: the Subcommand context is produced only below a first token
\* that the specification declares as a command with subcommands; a line of
\* config or completion and a second word, under a specification not declaring
\* it, is never classified as Subcommand and its result is empty.
C27_UndeclaredBuiltinEmpty ==
    /\ (pc = "done" /\ context.context_type = "Subcommand")
          => FirstIsCommandWithSubcommands
    /\ (UndeclaredBuiltinFirst /\ Len(tokens) = 3)
          => context.context_type # "Subcommand" /\ completions = <<>>

\* C27 as the code has it: the result is empty unless one of the last two
\* tokens starts with a dash, in which case the line is classified as Option
\* or OptionValue and completed as such.
C27_UndeclaredBuiltinNoSubcommand ==
    /\ (pc = "done" /\ context.context_type = "Subcommand")
          => FirstIsCommandWithSubcommands
    /\ UndeclaredBuiltinFirst
          => /\ context.context_type # "Subcommand"
             /\ (~StartsWith(LastToken, "-") /\ ~StartsWith(PreviousToken, "-"))
                   => context.context_type = "Unknown" /\ completions = <<>>
             /\ StartsWith(LastToken, "-") => context.context_type = "Option"
             /\ (~StartsWith(LastToken, "-") /\ StartsWith(PreviousToken, "-"))
                   => context.context_type = "OptionValue"

\* The beginning of a built-in subcommand of config typed under a
\* specification that has commands, none of them config
C27_Witness ==
    /\ UndeclaredBuiltinFirst
    /\ engine.config = CfgApp
    /\ tokens = <<"prog", "config", "se">>
    /\ context.context_type = "Unknown"
    /\ completions = <<>>

\* An Option context that no dash-prefixed token has produced
OptionByDepth ==
    /\ pc = "done"
    /\ context.context_type = "Option"
    /\ ~StartsWith(LastToken, "-")
    /\ ~StartsWith(PreviousToken, "-")

\* More than two tokens follow the program name and the second of them is a
\* declared subcommand of the command typed first
BelowDeclaredSubcommand ==
    /\ Len(tokens) > 3
    /\ IsSome(CliCommands(engine.config)[tokens[2]].subcommands)
    /\ HasKey(Unwrap(CliCommands(engine.config)[tokens[2]].subcommands),
              tokens[3])

\* C28: in an Option context reached by depth the candidates are the global
\* options, the standard flags and the own options of one node: of the
\* subcommand when more than two tokens remain and the second is a declared
\* subcommand of the matched command (the options of the command are then not
\* offered), of the command in every other case. Nothing is filtered by prefix.
C28_OptionsByDepth ==
    OptionByDepth =>
        LET command_config == CliCommands(engine.config)[tokens[2]]
            node == IF BelowDeclaredSubcommand
                    THEN Unwrap(command_config.subcommands)[tokens[3]]
                    ELSE command_config
        IN  /\ HasKey(CliCommands(engine.config), tokens[2])
            /\ context.partial = None
            /\ ListsExactly(completions,
                   Range(OptionFlags(GlobalOptionsOf(engine.config)))
                   \cup FlagsOfNode(node)
                   \cup Range(StandardOptions))

\* Below deploy start: the flag of start is offered, that of deploy is not
C28_Witness ==
    /\ OptionByDepth
    /\ tokens = <<"prog", "deploy", "start", "x">>
    /\ context.subcommand = Some("start")
    /\ "--force" \in Range(completions)
    /\ "--env" \notin Range(completions)

\* The quoted regions of a line: closed holds the pairs of an opening quote
\* and the next occurrence of the same character, open the place of a quote
\* that nothing closes (0 for none)
RECURSIVE QuotesFrom(_, _, _)
QuotesFrom(s, i, acc) ==
    IF i > Len(s) THEN acc
    ELSE LET c == CharAt(s, i)
         IN  QuotesFrom(s, i + 1,
                 IF acc.open = 0
                 THEN (IF c \in {"\"", "'"} THEN [acc EXCEPT !.open = i] ELSE acc)
                 ELSE IF c = CharAt(s, acc.open)
                 THEN [closed |-> acc.closed \cup {<<acc.open, i>>}, open |-> 0]
                 ELSE acc)

Quotes(s) == QuotesFrom(s, 1, [closed |-> {}, open |-> 0])

Contains(t, sub) ==
    \E i \in 1..(Len(t) - Len(sub) + 1) : SubSeq(t, i, i + Len(sub) - 1) = sub

EndsWith(t, sub) ==
    Len(sub) <= Len(t) /\ SubSeq(t, Len(t) - Len(sub) + 1, Len(t)) = sub

\* C29: a quoted region runs from its opening quote to the next occurrence of
\* the same quote character and lies whole within one token, whatever
\* whitespace and other quote characters it holds; after a quote that nothing
\* closes the rest of the line up to the cursor ends the last token; no token
\* is empty.
C29_QuotedRegions ==
    pc = "done" =>
        LET q == Quotes(TypedLine)
        IN  /\ \A r \in q.closed :
                  \E k \in 1..Len(tokens) :
                      Contains(tokens[k], SubSeq(TypedLine, r[1], r[2]))
            /\ q.open # 0
                  => /\ tokens # <<>>
                     /\ EndsWith(LastToken,
                                 SubSeq(TypedLine, q.open, Len(TypedLine)))
            /\ \A k \in 1..Len(tokens) : Len(tokens[k]) > 0

\* A double quote left open, then the other quote and a space
C29_Witness ==
    /\ pc = "done"
    /\ TypedLine = "\"' "
    /\ tokens = <<"\"' ">>

\* An optional hook as a sequence of at most one hook
OptSeq(o) == IF IsSome(o) THEN <<Unwrap(o)>> ELSE <<>>

\* The hooks registered for the command and phase of the call: the global
\* hooks of the phase, the built-in hook, the dynamic hook
HooksOfCall ==
    GlobalHooks(hooks.phase)
    \o OptSeq(BuiltinHook(hooks.command, hooks.phase))
    \o OptSeq(DynamicHook(hooks.dynamic, hooks.command, hooks.phase))

FailingHooks ==
    {k \in 1..Len(HooksOfCall) : ~HookResult(HooksOfCall[k], hooks).ok}

\* C30: execute_hooks runs the global hooks of the phase, then the built-in
\* hook of the command and phase, then its dynamic hook, in this order and no
\* other hook; the first hook that returns an error ends the run and its error
\* is returned.
C30_HookOrder ==
    hooks.pc = "returned" =>
        IF FailingHooks = {}
        THEN hooks.ran = HooksOfCall /\ hooks.result.ok
        ELSE /\ hooks.ran = SubSeq(HooksOfCall, 1, Nearest(FailingHooks))
             /\ hooks.result =
                   HookResult(HooksOfCall[Nearest(FailingHooks)], hooks)

\* All three kinds of hook have run for hello, the last one failing, while
\* hooks are registered for other commands and phases
C30_Witness ==
    /\ hooks.pc = "returned"
    /\ hooks.ran = <<"global_pre_command", "pre_hello",
                     "dynamic_hello_PreCommand">>
    /\ ~hooks.result.ok
    /\ hooks.dynamic[<<"process", "PostCommand">>] = "ok"
    /\ hooks.dynamic[<<"hello", "OnSuccess">>] = "err"

====
